---- MODULE Spec2Model ----
(***************************************************************************)
(* Announcements endpoints of the High School Management System API       *)
(* (src/backend/routers/announcements.py): the announcements collection,   *)
(* the five request handlers and the helpers they call.                    *)
(*                                                                         *)
(* Strings are sequences of character codes, so that Python's and          *)
(* MongoDB's lexicographic string comparison, str.replace and              *)
(* datetime.fromisoformat are computed rather than assumed.  A date-time    *)
(* string "2025-01-01THH:00:00<suffix>" is written with its fixed-width     *)
(* body abbreviated to the one character that varies (the hour digit),      *)
(* followed by the suffix as sent: nothing, "Z", or "+hh:mm".               *)
(***************************************************************************)
EXTENDS Integers, Sequences, FiniteSets, TLC

VARIABLES
    announcements,  \* announcements_collection: documents in store order
    nextOid,        \* the ObjectId the store hands to the next insert_one
    last,           \* the most recent request's caller, target and response
    pc,             \* per worker: position inside update_announcement
    target,         \* per worker: announcement_id of the update in progress
    update_doc,     \* per worker: update_announcement's local `update_doc`
    reply           \* per worker: the response to the worker's last update

vars == <<announcements, nextOid, last, pc, target, update_doc, reply>>

-----------------------------------------------------------------------------
(* Bounds of the model *)

MaxOne == 1           \* insert_one calls explored with the full date alphabet
MaxAnnouncements == 2 \* insert_one calls explored with plain dates
MaxRace == 1          \* insert_one calls explored with updates interleaved

-----------------------------------------------------------------------------
(* Strings.  Codes: 48..57 are "0".."9", 43 "+", 45 "-", 58 ":", 90 "Z".  *)

None == <<-1>>                         \* Python None (no string holds code -1)
EmptyStr == << >>                      \* ""
NotADate == <<110, 111>>               \* "no": parses as nothing
SuffixZ == <<90>>                      \* "Z"
Utc == <<43, 48, 48, 58, 48, 48>>      \* "+00:00"
Msg1 == <<109, 49>>                    \* "m1"
Msg2 == <<109, 50>>                    \* "m2"
BadId == <<120>>                       \* "x": no ObjectId
Teacher == <<116>>                     \* "t"
Stranger == <<115>>                    \* "s"

IsDigit(c) == c \in 48..57

\* "2025-01-01T0h:00:00", body abbreviated to the hour digit
Iso(h) == <<48 + h>>

\* Python str <= str and MongoDB's comparison of strings: lexicographic by code
RECURSIVE StrLeq(_, _)
StrLeq(a, b) ==
    IF a = << >> THEN TRUE
    ELSE IF b = << >> THEN FALSE
    ELSE IF Head(a) < Head(b) THEN TRUE
    ELSE IF Head(a) > Head(b) THEN FALSE
    ELSE StrLeq(Tail(a), Tail(b))

\* s.replace('Z', '+00:00'): every "Z" of s
RECURSIVE replace(_)
replace(s) ==
    IF s = << >> THEN << >>
    ELSE IF <<Head(s)>> = SuffixZ THEN Utc \o replace(Tail(s))
    ELSE <<Head(s)>> \o replace(Tail(s))

ValueError == [ok |-> FALSE, aware |-> FALSE, wall |-> 0, offset |-> 0]

\* datetime.fromisoformat: body, then nothing (naive) or "+hh:mm"/"-hh:mm"
\* (aware); anything else raises ValueError.  A bare "Z" is not accepted
\* before Python 3.11, which is why the handlers replace it first.
fromisoformat(s) ==
    IF s = << >> \/ ~IsDigit(Head(s)) THEN ValueError
    ELSE LET rest == Tail(s) IN
         IF rest = << >>
         THEN [ok |-> TRUE, aware |-> FALSE, wall |-> Head(s) - 48, offset |-> 0]
         ELSE IF /\ Len(rest) = 6
                 /\ rest[1] \in {43, 45}
                 /\ IsDigit(rest[2]) /\ IsDigit(rest[3])
                 /\ rest[4] = 58
                 /\ IsDigit(rest[5]) /\ IsDigit(rest[6])
         THEN [ok |-> TRUE, aware |-> TRUE, wall |-> Head(s) - 48,
               offset |-> (IF rest[1] = 43 THEN 1 ELSE -1)
                          * (10 * (rest[2] - 48) + (rest[3] - 48))]
         ELSE ValueError

\* datetime >= datetime: "TypeError" between a naive and an aware value
DatetimeGe(a, b) ==
    IF a.aware # b.aware THEN "TypeError"
    ELSE IF a.wall - a.offset >= b.wall - b.offset THEN "True"
    ELSE "False"

\* Python truthiness of an Optional[str]
Truthy(s) == s # None /\ s # EmptyStr

\* str(ObjectId) and ObjectId(str)
str(oid) == <<48 + oid>>
IsObjectId(s) == Len(s) = 1 /\ IsDigit(s[1])
ObjectId(s) == s[1] - 48

-----------------------------------------------------------------------------
(* The collections *)

\* teachers_collection: the teacher records, keyed by username
teachers_collection == {Teacher}

\* find_one's None
NoDoc == [_id |-> 0, message |-> None, start_date |-> None,
          expiration_date |-> None]

find_one(coll, oid) ==
    IF \E i \in DOMAIN coll : coll[i]._id = oid
    THEN coll[CHOOSE i \in DOMAIN coll : coll[i]._id = oid]
    ELSE NoDoc

\* find_gte with "$gt" for "$gte"
find_gt(coll, now) ==
    SelectSeq(coll, LAMBDA d : StrLeq(now, d.expiration_date)
                               /\ now # d.expiration_date)

\* find({"expiration_date": {"$gte": now}}), in store order
find_gte(coll, now) ==
    SelectSeq(coll, LAMBDA d : StrLeq(now, d.expiration_date))

insert_one(coll, doc, oid) ==
    Append(coll, [_id |-> oid, message |-> doc.message,
                  start_date |-> doc.start_date,
                  expiration_date |-> doc.expiration_date])

\* update_one with the filter dropped: "$set" lands on every document
update_every(coll, oid, set) ==
    [i \in DOMAIN coll |->
        [k \in DOMAIN coll[i] |->
            IF k \in DOMAIN set THEN set[k] ELSE coll[i][k]]]

\* update_one({"_id": oid}, {"$set": set}): no upsert
update_one(coll, oid, set) ==
    [i \in DOMAIN coll |->
        IF coll[i]._id = oid
        THEN [k \in DOMAIN coll[i] |->
                 IF k \in DOMAIN set THEN set[k] ELSE coll[i][k]]
        ELSE coll[i]]

\* delete_one with the filter dropped once a document matches
delete_every(coll, oid) ==
    IF \E i \in DOMAIN coll : coll[i]._id = oid THEN << >> ELSE coll

delete_one(coll, oid) == SelectSeq(coll, LAMBDA d : d._id # oid)

deleted_count(coll, oid) == Len(coll) - Len(delete_one(coll, oid))

\* announcement["_id"] = str(announcement["_id"])
Render(doc) == [doc EXCEPT !._id = str(doc._id)]

RenderAll(docs) == [i \in DOMAIN docs |-> Render(docs[i])]

-----------------------------------------------------------------------------
(* Outcomes.  The handlers answer with an HTTP status and a detail; the     *)
(* names below are the ones the documentation gives them:                   *)
(*   Unauthorized        401 "Unauthorized"                                 *)
(*   InvalidDateFormat   400 "Invalid date format"                          *)
(*   InvalidDateRange    400 "Start date must be before expiration date"    *)
(*   InvalidId           400 "Invalid announcement ID"                      *)
(*   NotFound            404 "Announcement not found"                       *)
(*   NoFieldsProvided    400 "No fields to update"                          *)
(*   InternalError       500, an exception no handler catches               *)
(*   OK                  200                                                *)

verify_teacher(username) == username \in teachers_collection

\* create_announcement's try block
CreateValidate(announcement) ==
    LET expiration_date == fromisoformat(replace(announcement.expiration_date))
        start_date == fromisoformat(replace(announcement.start_date))
    IN  IF ~expiration_date.ok THEN "InvalidDateFormat"
        ELSE IF ~Truthy(announcement.start_date) THEN "OK"
        ELSE IF ~start_date.ok THEN "InvalidDateFormat"
        ELSE IF DatetimeGe(start_date, expiration_date) = "TypeError"
             THEN "InternalError"
        ELSE IF DatetimeGe(start_date, expiration_date) = "True"
             THEN "InvalidDateRange"
        ELSE "OK"

\* UpdateLookup with the identifier looked at before the caller
UpdateLookupIdFirst(coll, announcement_id, username) ==
    IF ~IsObjectId(announcement_id) THEN "InvalidId"
    ELSE IF ~verify_teacher(username) THEN "Unauthorized"
    ELSE IF find_one(coll, ObjectId(announcement_id)) = NoDoc THEN "NotFound"
    ELSE "OK"

\* update_announcement: the lookup of the target
UpdateLookup(coll, announcement_id, username) ==
    IF ~verify_teacher(username) THEN "Unauthorized"
    ELSE IF ~IsObjectId(announcement_id) THEN "InvalidId"
    ELSE IF find_one(coll, ObjectId(announcement_id)) = NoDoc THEN "NotFound"
    ELSE "OK"

\* update_announcement: update_doc holds the fields that are not None
BuildUpdateDoc(announcement) ==
    [k \in {f \in {"message", "start_date", "expiration_date"} :
                announcement[f] # None} |-> announcement[k]]

Get(doc, k, default) == IF k \in DOMAIN doc THEN doc[k] ELSE default

\* UpdateValidate without the empty-update check
UpdateValidateNoEmptyCheck(upd, old) ==
    LET exp_date == Get(upd, "expiration_date", old.expiration_date)
        start_date == Get(upd, "start_date", old.start_date)
        expiration_date == fromisoformat(replace(exp_date))
        start_date_dt == fromisoformat(replace(start_date))
    IN  IF Truthy(exp_date) /\ ~expiration_date.ok THEN "InvalidDateFormat"
        ELSE IF Truthy(start_date) /\ ~start_date_dt.ok THEN "InvalidDateFormat"
        ELSE IF /\ Truthy(start_date) /\ Truthy(exp_date)
                /\ DatetimeGe(start_date_dt, expiration_date) = "TypeError"
             THEN "InternalError"
        ELSE IF /\ Truthy(start_date) /\ Truthy(exp_date)
                /\ DatetimeGe(start_date_dt, expiration_date) = "True"
             THEN "InvalidDateRange"
        ELSE "OK"

\* update_announcement: the try block and the empty-update check after it
UpdateValidate(upd, old) ==
    LET exp_date == Get(upd, "expiration_date", old.expiration_date)
        start_date == Get(upd, "start_date", old.start_date)
        expiration_date == fromisoformat(replace(exp_date))
        start_date_dt == fromisoformat(replace(start_date))
    IN  IF Truthy(exp_date) /\ ~expiration_date.ok THEN "InvalidDateFormat"
        ELSE IF Truthy(start_date) /\ ~start_date_dt.ok THEN "InvalidDateFormat"
        ELSE IF /\ Truthy(start_date) /\ Truthy(exp_date)
                /\ DatetimeGe(start_date_dt, expiration_date) = "TypeError"
             THEN "InternalError"
        ELSE IF /\ Truthy(start_date) /\ Truthy(exp_date)
                /\ DatetimeGe(start_date_dt, expiration_date) = "True"
             THEN "InvalidDateRange"
        ELSE IF DOMAIN upd = {} THEN "NoFieldsProvided"
        ELSE "OK"

\* update_announcement: the read-back and the answer; subscripting the None
\* of a record that is gone raises TypeError
UpdateReadBack(coll, oid) ==
    IF find_one(coll, oid) = NoDoc
    THEN [status |-> "InternalError", result |-> << >>]
    ELSE [status |-> "OK", result |-> <<Render(find_one(coll, oid))>>]

-----------------------------------------------------------------------------
(* Requests *)

NoBody == [message |-> None, start_date |-> None, expiration_date |-> None]

\* what the caller of the most recent request saw
Response(op, username, announcement_id, now, status, result) ==
    [op |-> op, username |-> username, announcement_id |-> announcement_id,
     now |-> now, status |-> status, result |-> result]

Workers == {"w1", "w2"}

NoReply == [status |-> "none", result |-> << >>]

Init ==
    /\ announcements = << >>
    /\ nextOid = 1
    /\ last = Response("none", None, None, None, "none", << >>)
    /\ pc = [w \in Workers |-> "idle"]
    /\ target = [w \in Workers |-> None]
    /\ update_doc = [w \in Workers |-> << >>]
    /\ reply = [w \in Workers |-> NoReply]

workerVars == <<pc, target, update_doc, reply>>

\* GET /announcements/active
get_active_announcements(now) ==
    LET found == find_gte(announcements, now)
        active_announcements ==
            SelectSeq(found, LAMBDA a : a.start_date = None
                                        \/ StrLeq(a.start_date, now))
    IN  /\ last' = Response("get_active", None, None, now, "OK",
                            RenderAll(active_announcements))
        /\ UNCHANGED <<announcements, nextOid, workerVars>>

\* GET /announcements/all
get_all_announcements(username) ==
    /\ last' = IF ~verify_teacher(username)
               THEN Response("get_all", username, None, None,
                             "Unauthorized", << >>)
               ELSE Response("get_all", username, None, None, "OK",
                             RenderAll(announcements))
    /\ UNCHANGED <<announcements, nextOid, workerVars>>

\* POST /announcements/
create_announcement(announcement, username) ==
    LET status == IF ~verify_teacher(username) THEN "Unauthorized"
                  ELSE CreateValidate(announcement)
        stored == insert_one(announcements, announcement, nextOid)
    IN  /\ announcements' = IF status = "OK" THEN stored ELSE announcements
        /\ nextOid' = IF status = "OK" THEN nextOid + 1 ELSE nextOid
        /\ last' = Response("create", username, None, None, status,
                            IF status = "OK"
                            THEN <<Render(stored[Len(stored)])>> ELSE << >>)
        /\ UNCHANGED workerVars

\* PUT /announcements/{announcement_id}, start to end
update_announcement(announcement_id, announcement, username) ==
    LET lookup == UpdateLookup(announcements, announcement_id, username)
        oid == ObjectId(announcement_id)
        upd == BuildUpdateDoc(announcement)
        status == IF lookup # "OK" THEN lookup
                  ELSE UpdateValidate(upd, find_one(announcements, oid))
        written == update_one(announcements, oid, upd)
        answer == IF status # "OK" THEN [status |-> status, result |-> << >>]
                  ELSE UpdateReadBack(written, oid)
    IN  /\ announcements' = IF status = "OK" THEN written ELSE announcements
        /\ last' = Response("update", username, announcement_id, None,
                            answer.status, answer.result)
        /\ UNCHANGED <<nextOid, workerVars>>

\* DELETE /announcements/{announcement_id}
delete_announcement(announcement_id, username) ==
    LET status ==
            IF ~verify_teacher(username) THEN "Unauthorized"
            ELSE IF ~IsObjectId(announcement_id) THEN "InvalidId"
            ELSE IF deleted_count(announcements, ObjectId(announcement_id)) = 0
                 THEN "NotFound"
            ELSE "OK"
    IN  /\ announcements' =
            IF status \in {"OK", "NotFound"}
            THEN delete_one(announcements, ObjectId(announcement_id))
            ELSE announcements
        /\ last' = Response("delete", username, announcement_id, None, status,
                            << >>)
        /\ UNCHANGED <<nextOid, workerVars>>

-----------------------------------------------------------------------------
(* PUT /announcements/{announcement_id} served by a worker while other      *)
(* requests are served: one step per call on the announcements collection,  *)
(* each taken together with the handler's own computation up to the next    *)
(* call (which reads and writes nothing but the handler's locals).          *)

\* verify_teacher, find_one, update_doc, the date checks, the empty check
update_begin(w, announcement_id, announcement, username) ==
    LET lookup == UpdateLookup(announcements, announcement_id, username)
        upd == BuildUpdateDoc(announcement)
        status == IF lookup # "OK" THEN lookup
                  ELSE UpdateValidate(upd, find_one(announcements,
                                                    ObjectId(announcement_id)))
    IN  /\ pc[w] = "idle"
        /\ IF status = "OK"
           THEN /\ pc' = [pc EXCEPT ![w] = "update_one"]
                /\ target' = [target EXCEPT ![w] = announcement_id]
                /\ update_doc' = [update_doc EXCEPT ![w] = upd]
                /\ reply' = [reply EXCEPT ![w] = NoReply]
           ELSE /\ reply' = [reply EXCEPT
                                ![w] = [status |-> status, result |-> << >>]]
                /\ UNCHANGED <<pc, target, update_doc>>
        /\ UNCHANGED <<announcements, nextOid, last>>

\* announcements_collection.update_one
update_write(w) ==
    /\ pc[w] = "update_one"
    /\ announcements' = update_one(announcements, ObjectId(target[w]),
                                   update_doc[w])
    /\ pc' = [pc EXCEPT ![w] = "find_one"]
    /\ UNCHANGED <<nextOid, last, target, update_doc, reply>>

\* announcements_collection.find_one, and the answer
update_return(w) ==
    /\ pc[w] = "find_one"
    /\ reply' = [reply EXCEPT
                    ![w] = UpdateReadBack(announcements, ObjectId(target[w]))]
    /\ pc' = [pc EXCEPT ![w] = "idle"]
    /\ target' = [target EXCEPT ![w] = None]
    /\ update_doc' = [update_doc EXCEPT ![w] = << >>]
    /\ UNCHANGED <<announcements, nextOid, last>>

-----------------------------------------------------------------------------
(* Inputs *)

Users == {Teacher, Stranger}

\* date-time strings: an earlier and a later hour, naive and with "Z";
\* the clock runs from before the earlier to after the later
Hours == {1, 2}
PlainDates == {Iso(h) : h \in Hours}
AllDates == PlainDates \cup {Iso(h) \o SuffixZ : h \in Hours}
                \cup {EmptyStr, NotADate}
Nows == {Iso(h) : h \in 0..3}      \* datetime.now().isoformat() is naive

\* the bodies pydantic lets through: Announcement and AnnouncementUpdate
Announcement(D) ==
    [message : {Msg1}, start_date : D \cup {None}, expiration_date : D]
AnnouncementUpdate(D, M) ==
    [message : M, start_date : D \cup {None}, expiration_date : D \cup {None}]
IdStrings(n) == {str(i) : i \in 1..n} \cup {BadId}

\* requests served one at a time
Serve(D, M, cap) ==
    \/ \E now \in Nows : get_active_announcements(now)
    \/ \E u \in Users : get_all_announcements(u)
    \/ \E a \in Announcement(D), u \in Users :
          nextOid <= cap /\ create_announcement(a, u)
    \/ \E i \in IdStrings(cap), a \in AnnouncementUpdate(D, M), u \in Users :
          update_announcement(i, a, u)
    \/ \E i \in IdStrings(cap), u \in Users : delete_announcement(i, u)

\* every kind of date string, one announcement at a time
Next == Serve(AllDates, {None}, MaxOne)
Spec == Init /\ [][Next]_vars

\* several announcements, well-formed naive dates, messages edited
NextStore == Serve(PlainDates, {None, Msg2}, MaxAnnouncements)
SpecStore == Init /\ [][NextStore]_vars

\* updates by two workers, interleaved with each other and with the
\* creations and deletions of a third party
NextRace ==
    \/ \E a \in Announcement(PlainDates), u \in Users :
          nextOid <= MaxRace /\ create_announcement(a, u)
    \/ \E i \in IdStrings(MaxRace), u \in Users : delete_announcement(i, u)
    \/ \E w \in Workers, i \in IdStrings(MaxRace),
          a \in AnnouncementUpdate(PlainDates, {None}), u \in Users :
          update_begin(w, i, a, u)
    \/ \E w \in Workers : update_write(w)
    \/ \E w \in Workers : update_return(w)
SpecRace == Init /\ [][NextRace]_vars

-----------------------------------------------------------------------------
(* What the properties below mean by a date *)

\* the well-formed ISO-8601 date-times among the strings sent
WellFormed(s) == \E h \in Hours : s = Iso(h) \/ s = Iso(h) \o SuffixZ

\* the hour a well-formed date-time names ("Z" is UTC; a date-time without
\* an offset is read as written)
Hour(s) == s[1] - 48

Docs(coll) == {coll[i] : i \in DOMAIN coll}
Oids(coll) == {coll[i]._id : i \in DOMAIN coll}
Fields == {"message", "start_date", "expiration_date"}

-----------------------------------------------------------------------------
(* Properties *)

ActiveAt(d, now) ==
    /\ Hour(d.expiration_date) >= Hour(now)
    /\ d.start_date = None \/ Hour(d.start_date) <= Hour(now)

C2_CreateDecidedByOrder ==
    [][last'.op = "create" =>
          \A a \in Announcement(AllDates) :
             (/\ WellFormed(a.start_date) /\ WellFormed(a.expiration_date)
              /\ create_announcement(a, Teacher))
             => IF Hour(a.start_date) >= Hour(a.expiration_date)
                THEN /\ last'.status = "InvalidDateRange"
                     /\ announcements' = announcements
                ELSE /\ last'.status = "OK"
                     /\ Len(announcements') = Len(announcements) + 1
                     /\ SubSeq(announcements', 1, Len(announcements))
                          = announcements
                     /\ \E d \in Docs(announcements') :
                           /\ d._id \notin Oids(announcements)
                           /\ \A f \in Fields : d[f] = a[f]
                           /\ last'.result = <<Render(d)>>]_vars

\* C3: every stored announcement with a start_date has it strictly before its
\* expiration_date (an empty start_date is counted as none).
C3_StartBeforeExpiration ==
    \A d \in Docs(announcements) :
       Truthy(d.start_date) =>
          /\ WellFormed(d.start_date)
          /\ WellFormed(d.expiration_date)
          /\ Hour(d.start_date) < Hour(d.expiration_date)

\* What does hold of the store when requests are served one at a time: two
\* dates that are both non-empty are well-formed, of one kind, and in order.
StoredDatesOrderedWhenNonEmpty ==
    \A d \in Docs(announcements) :
       (Truthy(d.start_date) /\ Truthy(d.expiration_date)) =>
          /\ WellFormed(d.start_date)
          /\ WellFormed(d.expiration_date)
          /\ Len(d.start_date) = Len(d.expiration_date)
          /\ Hour(d.start_date) < Hour(d.expiration_date)

C5_UpdateFrame ==
    [][(last'.op = "update" /\ last'.status = "OK") =>
          \A a \in AnnouncementUpdate(PlainDates, {None, Msg2}) :
             update_announcement(last'.announcement_id, a, Teacher)
             => /\ Len(announcements') = Len(announcements)
                /\ \A k \in DOMAIN announcements :
                      LET old == announcements[k]
                          new == announcements'[k]
                      IN  /\ new._id = old._id
                          /\ IF str(old._id) = last'.announcement_id
                             THEN /\ \A f \in Fields :
                                        new[f] = IF a[f] # None THEN a[f]
                                                 ELSE old[f]
                                  /\ last'.result = <<Render(new)>>
                             ELSE new = old]_vars

\* C5 witness: an update succeeded while another record was stored.
C5_Witness ==
    /\ last.op = "update"
    /\ last.status = "OK"
    /\ Len(announcements) = 2
    /\ \E d \in Docs(announcements) :
          /\ str(d._id) = last.announcement_id
          /\ d.message = Msg2
          /\ d.start_date = None

\* C6: an authorized delete of a well-formed id that matches no record fails
\* with NotFound and leaves the store; of an existing id it succeeds and
\* removes that record alone; and an id that is gone stays gone, so a later
\* delete of it fails with NotFound.
C6_DeleteOnce ==
    [][/\ last'.op = "delete" =>
            \A i \in IdStrings(MaxAnnouncements) \ {BadId} :
               delete_announcement(i, Teacher)
               => IF \E d \in Docs(announcements) : str(d._id) = i
                  THEN /\ last'.status = "OK"
                       /\ Len(announcements') = Len(announcements) - 1
                       /\ Docs(announcements')
                            = {d \in Docs(announcements) : str(d._id) # i}
                  ELSE /\ last'.status = "NotFound"
                       /\ announcements' = announcements
       /\ \A oid \in 1..(nextOid - 1) :
             oid \notin Oids(announcements) => oid \notin Oids(announcements')
      ]_vars

\* C6 witness: a delete of an id that had been stored and deleted answered
\* NotFound, with another record still stored.
C6_Witness ==
    /\ last.op = "delete"
    /\ last.status = "NotFound"
    /\ last.username = Teacher
    /\ IsObjectId(last.announcement_id)
    /\ ObjectId(last.announcement_id) < nextOid
    /\ Len(announcements) = 1

\* C7: get_all, create, update and delete answer Unauthorized to a username
\* that is no teacher's, whatever else was sent, and leave the store as it
\* was; get_active never answers Unauthorized.
C7_UnauthorizedFirst ==
    [][/\ (last'.op \in {"get_all", "create", "update", "delete"}
           /\ last'.username \notin teachers_collection)
          => (last'.status = "Unauthorized" /\ announcements' = announcements)
       /\ last'.op = "get_active" => last'.status # "Unauthorized"]_vars

\* C7 witness: a stranger's update of a malformed id was answered
\* Unauthorized.
C7_Witness ==
    /\ last.op = "update"
    /\ last.username = Stranger
    /\ last.announcement_id = BadId
    /\ last.status = "Unauthorized"

\* C8: every stored announcement has a well-formed expiration_date, and a
\* start_date that is absent or well-formed.
C8_StoredDatesWellFormed ==
    \A d \in Docs(announcements) :
       /\ WellFormed(d.expiration_date)
       /\ d.start_date = None \/ WellFormed(d.start_date)

\* C9: with two updates of one record interleaved, the stored record still
\* has its start_date, when it has one, strictly before its expiration_date.
C9_OrderedUnderInterleaving ==
    \A d \in Docs(announcements) :
       d.start_date # None => Hour(d.start_date) < Hour(d.expiration_date)

Documented == {"Unauthorized", "InvalidId", "NotFound", "InvalidDateFormat",
               "InvalidDateRange", "NoFieldsProvided"}

\* C10: an update served while the record is deleted ends with the updated
\* record or a documented error, never an internal failure.
C10_UpdateEndsDocumented ==
    \A w \in Workers :
       \/ reply[w] = NoReply
       \/ reply[w].status \in Documented /\ reply[w].result = << >>
       \/ reply[w].status = "OK" /\ Len(reply[w].result) = 1

\* No step of an update brings back a record that is gone.
UpdateNeverRecreates ==
    [][\A oid \in 1..(nextOid - 1) :
          oid \notin Oids(announcements) => oid \notin Oids(announcements')]_vars

====
